---- MODULE Spec2Model ----
(***************************************************************************)
(* Model of locustfile.py: the PetstoreUser load-test scenario.            *)
(*                                                                         *)
(* Every simulated user repeatedly picks one of three weighted tasks,      *)
(* issues one GET request inside a catch_response context, validates the   *)
(* response and marks it with response.success() / response.failure(),     *)
(* and then waits.  The validation code is modelled statement by           *)
(* statement, with Python's semantics of the `in` operator, of truthiness  *)
(* and of the exceptions that the code catches or does not catch.          *)
(***************************************************************************)
EXTENDS Integers, Sequences, FiniteSets, TLC

(***************************************************************************)
(* Bounds of the model.                                                    *)
(***************************************************************************)
NumUsers == 1

Users == 1..NumUsers

(***************************************************************************)
(* Program constants.                                                      *)
(***************************************************************************)
WaitMin == 1
WaitMax == 3

\* The @task(n) weights of the three tasks.
Weight ==
  [get_pet_by_id |-> 2, find_pets_by_status |-> 2, health_check |-> 1]

TaskNames == DOMAIN Weight

(***************************************************************************)
(* Decoded JSON values.  Every value is a record of the same shape:        *)
(*   kind  : "null", "number", "str", "dict", "list", or "invalid" for a   *)
(*           response text that is not JSON at all;                        *)
(*   keys  : the key set of a dict;                                        *)
(*   text  : the characters of a str;                                      *)
(*   elems : the elements of a list.                                       *)
(***************************************************************************)
JValue(k, ks, t, es) == [kind |-> k, keys |-> ks, text |-> t, elems |-> es]

JInvalid  == JValue("invalid", {}, <<>>, <<>>)
JNull     == JValue("null", {}, <<>>, <<>>)
JNumber   == JValue("number", {}, <<>>, <<>>)
JStr(t)   == JValue("str", {}, t, <<>>)
JDict(ks) == JValue("dict", ks, <<>>, <<>>)
JList(es) == JValue("list", {}, <<>>, es)

\* The string literals the code tests for, as character sequences.
K_id     == <<"i", "d">>
K_name   == <<"n", "a", "m", "e">>
K_status == <<"s", "t", "a", "t", "u", "s">>

\* Response bodies the server may send with status 200.
Bodies ==
  { JInvalid, JNull, JNumber,
    JStr(K_id \o K_name), JStr(K_id \o K_status), JStr(K_name),
    JDict({K_id, K_name}), JDict({K_id, K_name, K_status}), JDict({K_id}),
    JDict({}),
    JList(<<>>),
    JList(<<JStr(K_id), JStr(K_name)>>),
    JList(<<JDict({K_id, K_status})>>),
    JList(<<JDict({K_id, K_name}), JDict({K_id, K_status})>>),
    JList(<<JNumber>>),
    JList(<<JNull, JDict({K_id, K_status})>>),
    JList(<<JStr(K_id \o K_status)>>),
    JList(<<JList(<<JStr(K_id), JStr(K_status)>>)>>) }

\* Response bodies the server may send with any other status.
ErrorBodies == { JInvalid, JNull, JDict({K_id, K_name}), JList(<<>>) }

\* HTTP status codes; 0 is what the client reports for a network failure.
Statuses == {0, 200, 400, 404, 405, 500}

\* The responses a request may get.
Responses ==
  { [status_code |-> st, body |-> b] :
      st \in {200}, b \in Bodies }
  \cup
  { [status_code |-> st, body |-> b] :
      st \in Statuses \ {200}, b \in ErrorBodies }

(***************************************************************************)
(* Python semantics used by the validation code.                           *)
(***************************************************************************)
\* `sub in s` for two strings: the substring test.
IsSubstring(sub, s) ==
  \E i \in 1..(Len(s) - Len(sub) + 1) : SubSeq(s, i, i + Len(sub) - 1) = sub

\* The types on which `key in x` is defined; on None and on numbers it
\* raises TypeError.
SupportsIn(x) == x.kind \in {"dict", "list", "str"}

\* `key in x` for a string key: key lookup in a dict, element equality in a
\* list, substring test in a str.
PyIn(key, x) ==
  CASE x.kind = "dict" -> key \in x.keys
    [] x.kind = "list" -> \E i \in 1..Len(x.elems) : x.elems[i] = JStr(key)
    [] x.kind = "str"  -> IsSubstring(key, x.text)
    [] OTHER           -> FALSE

(***************************************************************************)
(* The response object handed to the body of the `with` statement.         *)
(*   calls         : the success()/failure() calls made so far, in order;  *)
(*   manual_result : the mark those calls leave on the response;           *)
(*   decoded       : whether response.json() has been called;              *)
(*   raised        : the exception leaving the body, "none" if none.       *)
(***************************************************************************)
Success         == [kind |-> "success", reason |-> ""]
Failure(reason) == [kind |-> "failure", reason |-> reason]
NoResult        == [kind |-> "none", reason |-> ""]

Response(status, body) ==
  [status_code |-> status, body |-> body, calls |-> <<>>,
   manual_result |-> NoResult, decoded |-> FALSE, raised |-> "none"]

NoResponse == Response(-1, JNull)

\* response.success(): marks the response as a success.
success(r) ==
  [r EXCEPT !.calls = Append(@, Success), !.manual_result = Success]

\* response.failure(reason): marks the response as a failure; a later mark
\* replaces an earlier one.
failure(r, reason) ==
  [r EXCEPT !.calls = Append(@, Failure(reason)),
            !.manual_result = Failure(reason)]

\* An exception that no handler of the task catches.
raise(r, exc) == [r EXCEPT !.raised = exc]

\* response.json() has been called.
json(r) == [r EXCEPT !.decoded = TRUE]

(***************************************************************************)
(* get_pet_by_id: the body of the `with` statement.                        *)
(***************************************************************************)
\* Variant without the 404 branch.
get_pet_by_id_no_404(r) ==
  IF r.status_code = 200
  THEN LET d == json(r)
           pet_data == r.body
       IN IF pet_data.kind = "invalid"
          THEN failure(d, "Invalid JSON response")
          ELSE IF ~SupportsIn(pet_data)
          THEN raise(d, "TypeError")
          ELSE IF PyIn(K_id, pet_data) /\ PyIn(K_name, pet_data)
          THEN LET s == success(d)
               IN IF pet_data.kind = "dict" THEN s
                  ELSE raise(s, "AttributeError")
          ELSE failure(d, "Invalid response structure")
  ELSE failure(r, "Unexpected status code: " \o ToString(r.status_code))

\* The code, lines 36-50.
get_pet_by_id_body(r) ==
  IF r.status_code = 200
  THEN LET d == json(r)
           pet_data == r.body
       IN IF pet_data.kind = "invalid"
          THEN \* response.json() raises JSONDecodeError, which is caught
               failure(d, "Invalid JSON response")
          ELSE IF ~SupportsIn(pet_data)
          THEN \* 'id' in pet_data raises TypeError, which is not caught
               raise(d, "TypeError")
          ELSE IF PyIn(K_id, pet_data) /\ PyIn(K_name, pet_data)
          THEN LET s == success(d)
               IN \* pet_data.get('name', 'Unknown') in the print
                  IF pet_data.kind = "dict" THEN s
                  ELSE raise(s, "AttributeError")
          ELSE failure(d, "Invalid response structure")
  ELSE IF r.status_code = 404
  THEN failure(r, "Pet not found")
  ELSE failure(r, "Unexpected status code: " \o ToString(r.status_code))

(***************************************************************************)
(* find_pets_by_status: the body of the `with` statement.                  *)
(***************************************************************************)
\* Variant without the isinstance(pets_data, list) test.
find_pets_by_status_no_list_check(r) ==
  IF r.status_code = 200
  THEN LET d == json(r)
           pets_data == r.body
       IN IF pets_data.kind = "invalid"
          THEN failure(d, "Invalid JSON response")
          ELSE LET s == success(d)
               IN IF pets_data.kind = "list" /\ Len(pets_data.elems) > 0
                  THEN LET first_pet == pets_data.elems[1]
                       IN IF ~SupportsIn(first_pet)
                          THEN raise(s, "TypeError")
                          ELSE IF ~(PyIn(K_id, first_pet)
                                    /\ PyIn(K_status, first_pet))
                          THEN failure(s, "Pet objects missing required fields")
                          ELSE s
                  ELSE s
  ELSE IF r.status_code = 400
  THEN failure(r, "Invalid status value")
  ELSE failure(r, "Unexpected status code: " \o ToString(r.status_code))

\* Variant without the 400 branch.
find_pets_by_status_no_400(r) ==
  IF r.status_code = 200
  THEN LET d == json(r)
           pets_data == r.body
       IN IF pets_data.kind = "invalid"
          THEN failure(d, "Invalid JSON response")
          ELSE IF pets_data.kind = "list"
          THEN LET s == success(d)
               IN IF Len(pets_data.elems) > 0
                  THEN LET first_pet == pets_data.elems[1]
                       IN IF ~SupportsIn(first_pet)
                          THEN raise(s, "TypeError")
                          ELSE IF ~(PyIn(K_id, first_pet)
                                    /\ PyIn(K_status, first_pet))
                          THEN failure(s, "Pet objects missing required fields")
                          ELSE s
                  ELSE s
          ELSE failure(d, "Expected list response")
  ELSE failure(r, "Unexpected status code: " \o ToString(r.status_code))

\* Variant whose additional validation looks for 'id' only.
find_pets_by_status_id_only(r) ==
  IF r.status_code = 200
  THEN LET d == json(r)
           pets_data == r.body
       IN IF pets_data.kind = "invalid"
          THEN failure(d, "Invalid JSON response")
          ELSE IF pets_data.kind = "list"
          THEN LET s == success(d)
               IN IF Len(pets_data.elems) > 0
                  THEN LET first_pet == pets_data.elems[1]
                       IN IF ~SupportsIn(first_pet)
                          THEN raise(s, "TypeError")
                          ELSE IF ~PyIn(K_id, first_pet)
                          THEN failure(s, "Pet objects missing required fields")
                          ELSE s
                  ELSE s
          ELSE failure(d, "Expected list response")
  ELSE IF r.status_code = 400
  THEN failure(r, "Invalid status value")
  ELSE failure(r, "Unexpected status code: " \o ToString(r.status_code))

\* The code, lines 68-88.
find_pets_by_status_body(r) ==
  IF r.status_code = 200
  THEN LET d == json(r)
           pets_data == r.body
       IN IF pets_data.kind = "invalid"
          THEN \* response.json() raises JSONDecodeError, which is caught
               failure(d, "Invalid JSON response")
          ELSE IF pets_data.kind = "list"
          THEN LET s == success(d)
               IN IF Len(pets_data.elems) > 0
                  THEN LET first_pet == pets_data.elems[1]
                       IN IF ~SupportsIn(first_pet)
                          THEN \* 'id' in first_pet raises TypeError
                               raise(s, "TypeError")
                          ELSE IF ~(PyIn(K_id, first_pet)
                                    /\ PyIn(K_status, first_pet))
                          THEN failure(s, "Pet objects missing required fields")
                          ELSE s
                  ELSE s
          ELSE failure(d, "Expected list response")
  ELSE IF r.status_code = 400
  THEN failure(r, "Invalid status value")
  ELSE failure(r, "Unexpected status code: " \o ToString(r.status_code))

(***************************************************************************)
(* health_check: the body of the `with` statement.                         *)
(***************************************************************************)
\* Variant that does not accept status 405.
health_check_no_405(r) ==
  IF r.status_code \in {200, 404}
  THEN success(r)
  ELSE failure(r, "Health check failed: " \o ToString(r.status_code))

\* The code, lines 99-102.
health_check_body(r) ==
  IF r.status_code \in {200, 404, 405}
  THEN success(r)
  ELSE failure(r, "Health check failed: " \o ToString(r.status_code))

(***************************************************************************)
(* Leaving the `with` statement: the outcome that is reported for the      *)
(* request is the mark the body left on the response; a body that raised   *)
(* before marking the response reports nothing.                            *)
(***************************************************************************)
exit_response(r) == r.manual_result

(***************************************************************************)
(* State.                                                                  *)
(*   test      : "init", "running" or "stopped";                           *)
(*   pc        : per user, "new" (spawned), "idle" (about to pick a task), *)
(*               "task" (a task picked, its request not yet made), "done"  *)
(*               (the task has returned) or "waiting" (pausing);           *)
(*   task      : per user, the task picked last;                           *)
(*   response  : per user, the response object of the task just run;       *)
(*   reported  : per user, the outcome reported for the request just made; *)
(*   wait_time : per user, the length of the pause in progress.            *)
(***************************************************************************)
VARIABLES test, pc, task, response, reported, wait_time

vars == <<test, pc, task, response, reported, wait_time>>

Init ==
  /\ test = "init"
  /\ pc = [u \in Users |-> "new"]
  /\ task = [u \in Users |-> "none"]
  /\ response = [u \in Users |-> NoResponse]
  /\ reported = [u \in Users |-> NoResult]
  /\ wait_time = [u \in Users |-> 0]

\* The test_start listener: only prints.
on_test_start ==
  /\ test = "init"
  /\ test' = "running"
  /\ UNCHANGED <<pc, task, response, reported, wait_time>>

\* The test_stop listener: only prints.  No user runs after the stop.
on_test_stop ==
  /\ test = "running"
  /\ test' = "stopped"
  /\ UNCHANGED <<pc, task, response, reported, wait_time>>

\* PetstoreUser.on_start: only prints.
on_start(u) ==
  /\ test = "running"
  /\ pc[u] = "new"
  /\ pc' = [pc EXCEPT ![u] = "idle"]
  /\ UNCHANGED <<test, task, response, reported, wait_time>>

\* The weighted random choice among the @task methods: a task of weight n
\* fills n of the slots the choice is made from.
PickTask(u) ==
  /\ test = "running"
  /\ pc[u] = "idle"
  /\ \E t \in TaskNames : \E slot \in 1..Weight[t] :
       task' = [task EXCEPT ![u] = t]
  /\ pc' = [pc EXCEPT ![u] = "task"]
  /\ UNCHANGED <<test, response, reported, wait_time>>

\* A task that repeats a failed request instead of returning.
RunTaskRetrying(u, r) ==
  /\ response' = [response EXCEPT ![u] = r]
  /\ reported' = [reported EXCEPT ![u] = exit_response(r)]
  /\ pc' = [pc EXCEPT ![u] =
              IF exit_response(r).kind = "failure" THEN "task" ELSE "done"]
  /\ UNCHANGED <<test, task, wait_time>>

\* One run of a task: the request is made once, the body of the `with`
\* statement runs on the response, and leaving the statement reports the
\* outcome.  The task then returns (or raises) to the user's loop.
RunTask(u, r) ==
  /\ response' = [response EXCEPT ![u] = r]
  /\ reported' = [reported EXCEPT ![u] = exit_response(r)]
  /\ pc' = [pc EXCEPT ![u] = "done"]
  /\ UNCHANGED <<test, task, wait_time>>

get_pet_by_id(u) ==
  /\ test = "running"
  /\ pc[u] = "task"
  /\ task[u] = "get_pet_by_id"
  /\ \E got \in Responses :
       RunTask(u, get_pet_by_id_body(Response(got.status_code, got.body)))

find_pets_by_status(u) ==
  /\ test = "running"
  /\ pc[u] = "task"
  /\ task[u] = "find_pets_by_status"
  /\ \E got \in Responses :
       RunTask(u, find_pets_by_status_body(Response(got.status_code, got.body)))

health_check(u) ==
  /\ test = "running"
  /\ pc[u] = "task"
  /\ task[u] = "health_check"
  /\ \E got \in Responses :
       RunTask(u, health_check_body(Response(got.status_code, got.body)))

\* wait_time = between(1, 3): the pause after a task; the response object
\* of the task and its outcome are gone by then.
Wait(u) ==
  /\ test = "running"
  /\ pc[u] = "done"
  /\ \E d \in WaitMin..WaitMax : wait_time' = [wait_time EXCEPT ![u] = d]
  /\ response' = [response EXCEPT ![u] = NoResponse]
  /\ reported' = [reported EXCEPT ![u] = NoResult]
  /\ pc' = [pc EXCEPT ![u] = "waiting"]
  /\ UNCHANGED <<test, task>>

\* The pause is over: the loop goes on to the next task.
WakeUp(u) ==
  /\ test = "running"
  /\ pc[u] = "waiting"
  /\ wait_time' = [wait_time EXCEPT ![u] = 0]
  /\ pc' = [pc EXCEPT ![u] = "idle"]
  /\ UNCHANGED <<test, task, response, reported>>

UserNext(u) ==
  \/ on_start(u)
  \/ PickTask(u)
  \/ get_pet_by_id(u)
  \/ find_pets_by_status(u)
  \/ health_check(u)
  \/ Wait(u)
  \/ WakeUp(u)

Next ==
  \/ on_test_start
  \/ on_test_stop
  \/ \E u \in Users : UserNext(u)

Spec == Init /\ [][Next]_vars

\* The harness keeps running every user until the test is stopped.
LiveSpec == Spec /\ \A u \in Users : WF_vars(UserNext(u))

(***************************************************************************)
(* Vocabulary of the properties.                                           *)
(***************************************************************************)
\* User u has just run task t and has not yet begun its pause.
Ran(u, t) == pc[u] = "done" /\ task[u] = t

Calls(u) == response[u].calls

ReportsSuccess(u) == \E i \in 1..Len(Calls(u)) : Calls(u)[i] = Success

\* The decoded body x has the key: it is a value in which the key is found.
HasKey(key, x) == SupportsIn(x) /\ PyIn(key, x)

MissingFields == "Pet objects missing required fields"

(***************************************************************************)
(* C1: get_pet_by_id reports Success if and only if the status is 200 and  *)
(* the decoded body is a mapping with both keys 'id' and 'name'; a body    *)
(* that is not a mapping is never reported as Success.                     *)
(***************************************************************************)
C1_SuccessIffMappingWithIdAndName ==
  \A u \in Users :
    Ran(u, "get_pet_by_id") =>
      (ReportsSuccess(u) <=>
         /\ response[u].status_code = 200
         /\ response[u].body.kind = "dict"
         /\ {K_id, K_name} \subseteq response[u].body.keys)

(***************************************************************************)
(* C2: on every path through a task the number of response.success() plus  *)
(* response.failure() calls is exactly 1.                                  *)
(***************************************************************************)
C2_ExactlyOneReportPerRequest ==
  \A u \in Users : pc[u] = "done" => Len(Calls(u)) = 1

(***************************************************************************)
(* C3: no exception leaves a task: every run ends by reporting Success or  *)
(* Failure, and a body that fails to decode is reported as                 *)
(* Failure("Invalid JSON response").                                       *)
(***************************************************************************)
C3_NoExceptionLeavesTask ==
  \A u \in Users :
    pc[u] = "done" =>
      /\ response[u].raised = "none"
      /\ Len(Calls(u)) >= 1
      /\ (response[u].decoded /\ response[u].body.kind = "invalid"
            => Calls(u) = <<Failure("Invalid JSON response")>>)

(***************************************************************************)
(* C4: for status 200 and a decoded body that lacks 'id' or lacks 'name',  *)
(* get_pet_by_id reports Failure("Invalid response structure") and never   *)
(* Success.                                                                *)
(***************************************************************************)
C4_MissingFieldIsInvalidStructure ==
  \A u \in Users :
    ( /\ Ran(u, "get_pet_by_id")
      /\ response[u].status_code = 200
      /\ response[u].body.kind # "invalid"
      /\ (~HasKey(K_id, response[u].body) \/ ~HasKey(K_name, response[u].body)) )
    => Calls(u) = <<Failure("Invalid response structure")>>

(***************************************************************************)
(* C5: get_pet_by_id reports Failure("Pet not found") for status 404 and   *)
(* Failure("Unexpected status code: <status>") for every status other than *)
(* 200 and 404; in neither case is the body decoded or Success reported.   *)
(***************************************************************************)
C5_GetPetOtherStatuses ==
  \A u \in Users :
    (Ran(u, "get_pet_by_id") /\ response[u].status_code # 200) =>
      /\ response[u].status_code = 404
           => Calls(u) = <<Failure("Pet not found")>>
      /\ response[u].status_code # 404
           => Calls(u) = <<Failure("Unexpected status code: "
                                     \o ToString(response[u].status_code))>>
      /\ response[u].status_code = 500
           => reported[u].reason = "Unexpected status code: 500"
      /\ ~response[u].decoded
      /\ response[u].raised = "none"
      /\ reported[u] = Calls(u)[1]

C5_Witness ==
  \E u \in Users :
    /\ Ran(u, "get_pet_by_id")
    /\ response[u].status_code = 404
    /\ response[u].body = JDict({K_id, K_name})
    /\ reported[u] = Failure("Pet not found")

(***************************************************************************)
(* C6: find_pets_by_status with status 200 reports Success and nothing     *)
(* else for an empty list, and Failure("Expected list response"), never    *)
(* Success, for a decoded body that is not a list.                         *)
(***************************************************************************)
C6_FindPetsListCheck ==
  \A u \in Users :
    (Ran(u, "find_pets_by_status") /\ response[u].status_code = 200) =>
      /\ response[u].body = JList(<<>>)
           => /\ Calls(u) = <<Success>>
              /\ reported[u] = Success
              /\ response[u].raised = "none"
      /\ response[u].body.kind \notin {"list", "invalid"}
           => /\ Calls(u) = <<Failure("Expected list response")>>
              /\ reported[u] = Failure("Expected list response")
              /\ response[u].raised = "none"

C6_Witness ==
  \E u \in Users :
    /\ Ran(u, "find_pets_by_status")
    /\ response[u].status_code = 200
    /\ response[u].body = JList(<<>>)
    /\ reported[u] = Success

(***************************************************************************)
(* C7: find_pets_by_status reports Failure("Invalid status value") for     *)
(* status 400 whatever the body, and                                       *)
(* Failure("Unexpected status code: <status>") for every status other than *)
(* 200 and 400.                                                            *)
(***************************************************************************)
C7_FindPetsOtherStatuses ==
  \A u \in Users :
    (Ran(u, "find_pets_by_status") /\ response[u].status_code # 200) =>
      /\ response[u].status_code = 400
           => Calls(u) = <<Failure("Invalid status value")>>
      /\ response[u].status_code # 400
           => Calls(u) = <<Failure("Unexpected status code: "
                                     \o ToString(response[u].status_code))>>
      /\ response[u].status_code = 404
           => reported[u].reason = "Unexpected status code: 404"
      /\ response[u].raised = "none"
      /\ reported[u] = Calls(u)[1]

C7_Witness ==
  \E u \in Users :
    /\ Ran(u, "find_pets_by_status")
    /\ response[u].status_code = 400
    /\ response[u].body = JNull
    /\ reported[u] = Failure("Invalid status value")

C9_FailureIsNotFatal ==
  /\ [][\A u \in Users :
          (pc[u] = "task" /\ response'[u] # response[u]
             /\ reported'[u].kind = "failure") => pc'[u] = "done"]_vars
  /\ \A u \in Users :
       /\ (pc[u] = "done" /\ reported[u].kind = "failure")
            ~> (pc[u] = "task" \/ test = "stopped")
       /\ (pc[u] = "task") ~> (pc[u] = "done" \/ test = "stopped")

\* A task has returned to the user's loop with its request reported as a
\* Failure, and the test is still running.
C9_Witness ==
  \E u \in Users :
    /\ pc[u] = "done"
    /\ reported[u].kind = "failure"
    /\ response[u].raised = "none"
    /\ test = "running"

(***************************************************************************)
(* C10, as stated: for status 200 and a non-empty list whose first element *)
(* lacks 'id' or 'status', find_pets_by_status records Success, then       *)
(* reports Failure("Pet objects missing required fields"), and the outcome *)
(* recorded for the request remains Success.                               *)
(***************************************************************************)
FirstPetLacksField(u) ==
  /\ Ran(u, "find_pets_by_status")
  /\ response[u].status_code = 200
  /\ response[u].body.kind = "list"
  /\ Len(response[u].body.elems) > 0
  /\ \/ ~HasKey(K_id, response[u].body.elems[1])
     \/ ~HasKey(K_status, response[u].body.elems[1])

====
